---- MODULE Spec2Model ----
(***************************************************************************)
(* Model of package resolvable (src/resolvable.go, latest version of the   *)
(* file, and src/backoff.go): a pipeline of decorators around a base       *)
(* resolver.  The pipeline is built once (Graceful innermost, then the     *)
(* cache, then the mutex of Safe outermost, each optional) and is then     *)
(* called by concurrent callers.  Every statement of a decorator that      *)
(* touches shared state is one step of the calling goroutine.              *)
(*                                                                         *)
(* Values of T are the integers the base resolver hands out (its call      *)
(* counter, as in the package's tests); 0 is the zero value.  An error is  *)
(* 0 for nil, and otherwise the number of the base invocation that         *)
(* produced it, so errors of different invocations differ.  Times and      *)
(* durations are integers (nanoseconds in the code).                       *)
(***************************************************************************)
EXTENDS Integers, Sequences, FiniteSets

VARIABLES
    pipe,         \* the layers built at construction (immutable afterwards)
    base,         \* the base resolver the layers wrap (immutable afterwards)
    now,          \* the clock read by CacheOpts.now
    mu,           \* Safe: the mutex, 0 when free, else the goroutine holding it
    pc,           \* per goroutine: where its call stands
    loc,          \* per goroutine: the locals v, err of the layer it executes
    value,        \* cache.value (*T)
    err,          \* cache.err
    nextResolve,  \* cache.nextResolve
    boIdx,        \* state of the backoff policy: NextBackOff calls since Reset
    lastGood,     \* Graceful: lastGood (*T)
    count,        \* base resolver: its call counter
    inv,          \* history: base invocations made by the goroutine's current call
    lastBase,     \* history: outcome of the most recent base invocation
    lastSucc,     \* history: value of the most recent successful base invocation
    lastInner,    \* history: what the cache's inner resolver returned most recently
    resolvedAt,   \* history: clock reading of the most recent cache bookkeeping
    failStreak,   \* history: failures the cache has seen since the last success
    overlap,      \* history: two calls were ever in progress together without Safe
    racing        \* history: the calls in progress were inside the base resolver together

vars == <<pipe, base, now, mu, pc, loc, value, err, nextResolve, boIdx,
          lastGood, count, inv, lastBase, lastSucc, lastInner, resolvedAt,
          failStreak, overlap, racing>>

----------------------------------------------------------------------------
(* Bounds of the model *)

MaxInvocations == 3
MaxNow == 3
TTL == 2

(* The goroutines that call the pipeline concurrently *)
Callers == {1, 2}

(* Program constant *)
BackOffStop == -1

Min(a, b) == IF a < b THEN a ELSE b

(* A *T: nil, or a pointer to a value *)
Nil == [has |-> FALSE, v |-> 0]
Ref(x) == [has |-> TRUE, v |-> x]

(* The (T, error) pair of a call *)
Pair(x, e) == [v |-> x, err |-> e]
NoPair == Pair(0, 0)

(* No base invocation has completed yet *)
NoOutcome == [v |-> 0, err |-> -1]

----------------------------------------------------------------------------
(* The base resolvers *)

(* The values Static is built with, the zero value among them *)
StaticValues == {0, 5}

(* A resolver that counts its calls and returns the count, with or without *)
(* an error (the resolver of the package's tests)                           *)
Counter == [static |-> FALSE, v |-> 0]

(* Static(value) *)
Static(v) == [static |-> TRUE, v |-> v]

Bases == {Counter} \cup {Static(v) : v \in StaticValues}

(* Variant: a Static that returns the zero value *)
StaticResolveZero(v) == Pair(0, 0)

(* Static: the closure returns value, nil *)
StaticResolve(v) == Pair(v, 0)

(* The pair the base resolver returns on its n-th call *)
BaseResolve(b, n, fails) ==
    IF b.static THEN StaticResolve(b.v)
    ELSE Pair(n, IF fails THEN n ELSE 0)

----------------------------------------------------------------------------
(* The backoff policy.  BackOff is an interface; the policy modelled is one  *)
(* implementation of it: successive delays, then BackOffStop for ever.       *)

Delays == <<1, BackOffStop>>

PolicyNextBackOff(idx) == Delays[Min(idx + 1, Len(Delays))]
PolicyAdvance(idx) == Min(idx + 1, Len(Delays))

(* cache.backoff: the policy of RetryOpts, or zeroBackoff when it is nil *)
NextBackOff(hasPolicy, idx) == IF hasPolicy THEN PolicyNextBackOff(idx) ELSE 0
AfterNextBackOff(hasPolicy, idx) == IF hasPolicy THEN PolicyAdvance(idx) ELSE idx
AfterReset(hasPolicy, idx) == IF hasPolicy THEN 0 ELSE idx

----------------------------------------------------------------------------
(* Construction *)

NoCache == [on |-> FALSE, Expiry |-> 0, Retry |-> FALSE, Backoff |-> FALSE,
            MaxTries |-> 0]

(* Cache(resolvable, CacheOpts{Expiry, Retry, RetryOpts{Backoff}}).  The   *)
(* declaration of CacheOpts lists no RetryOpts field, but Retry sets it    *)
(* and cache.backoff reads it: the layer carries the policy those two use. *)
Cache(expiry, retry, backoff) ==
    [on |-> TRUE, Expiry |-> expiry, Retry |-> retry, Backoff |-> backoff,
     MaxTries |-> 0]

(* Retry(resolvable, RetryOpts) *)
Retry(backoff) == Cache(0, TRUE, backoff)

(* Once(resolvable) *)
Once == Cache(0, FALSE, FALSE)

Options == [once : BOOLEAN, retry : BOOLEAN, graceful : BOOLEAN,
            expiry : {0, TTL}, safe : BOOLEAN, backoff : BOOLEAN]

(* Variant: once is looked at before retry *)
NewCacheOnceFirst(o) ==
    IF o.expiry > 0 THEN Cache(o.expiry, o.retry, FALSE)
    ELSE IF o.once THEN Once
    ELSE IF o.retry THEN Retry(o.backoff)
    ELSE NoCache

(* New(fn, opts...): o is the options struct after all options are applied *)
NewCache(o) ==
    IF o.expiry > 0 THEN Cache(o.expiry, o.retry, FALSE)
    ELSE IF o.retry THEN Retry(o.backoff)
    ELSE IF o.once THEN Once
    ELSE NoCache

New(o) == [graceful |-> o.graceful, cache |-> NewCache(o), safe |-> o.safe]

(* The decorators used directly, composed in the order New composes them *)
CacheLayers == {NoCache} \cup
    {Cache(x, r, b) : x \in {0, TTL}, r \in BOOLEAN, b \in BOOLEAN}

Pipelines == {New(o) : o \in Options} \cup
    [graceful : BOOLEAN, cache : CacheLayers, safe : BOOLEAN]

(* Retry(resolvable, RetryOpts{Backoff, MaxTries: n}): the pipelines around *)
(* the cache Retry builds, with the field set                               *)
TriesValues == {0, 1, 2}
WithMaxTries(c, n) == [c EXCEPT !.MaxTries = n]
TriesPipelines ==
    {[q EXCEPT !.cache = WithMaxTries(q.cache, n)] :
        q \in {x \in Pipelines : x.cache = Retry(x.cache.Backoff)},
        n \in TriesValues}

----------------------------------------------------------------------------
(* Pure parts of the decorators *)

(* Variant: presence inferred from the stored value being non-zero *)
CacheHitNonZero(val, t, next) == val.has /\ val.v # 0 /\ t < next

(* cache.Resolve: the condition under which the stored pair is returned *)
CacheHit(val, t, next) == val.has /\ t < next

(* Variant: a cache hit that drops the stored error *)
CachedPairNoErr(val, e) == Pair(val.v, 0)

(* cache.Resolve: the stored pair, return *e.value, e.err *)
CachedPair(val, e) == Pair(val.v, e)

(* Variant: a failure is retried whether or not Retry is set *)
NextDurationAlwaysRetry(c, e, idx) ==
    IF e = 0 THEN c.Expiry ELSE NextBackOff(c.Backoff, idx)

(* Variant: a failure is cached for Expiry whether or not Retry is set *)
NextDurationNeverRetry(c, e, idx) == c.Expiry

(* Variant: the policy is reset at every expiry check *)
BackoffAtCheckAlways(c, val, hit, idx) == AfterReset(c.Backoff, idx)

(* cache.Resolve: the policy's state after the if / else-if at the top:    *)
(* Reset is called when the pair is not returned and e.value == nil        *)
BackoffAtCheck(c, val, hit, idx) ==
    IF ~hit /\ ~val.has THEN AfterReset(c.Backoff, idx) ELSE idx

(* Variant: after MaxTries failures in a row the cache stops retrying *)
NextDurationMaxTries(c, e, idx) ==
    IF e = 0 THEN c.Expiry
    ELSE IF c.Retry /\ c.MaxTries > 0 /\ idx + 1 >= c.MaxTries THEN MaxNow + 1
    ELSE IF c.Retry THEN NextBackOff(c.Backoff, idx)
    ELSE c.Expiry

(* cache.Resolve: the duration added to now to get nextResolve *)
NextDuration(c, e, idx) ==
    IF e = 0 THEN c.Expiry
    ELSE IF c.Retry THEN NextBackOff(c.Backoff, idx)
    ELSE c.Expiry

(* Variant: a success leaves the backoff policy as it is *)
BackoffAfterNoReset(c, e, idx) ==
    IF e = 0 THEN idx
    ELSE IF c.Retry THEN AfterNextBackOff(c.Backoff, idx)
    ELSE idx

(* cache.Resolve: the backoff policy's state after the bookkeeping *)
BackoffAfter(c, e, idx) ==
    IF e = 0 THEN AfterReset(c.Backoff, idx)
    ELSE IF c.Retry THEN AfterNextBackOff(c.Backoff, idx)
    ELSE idx

(* Variant: Graceful hands the inner pair through *)
GracefulReturnNoFallback(lg, r) == Pair(r.v, r.err)

(* Graceful: the pair returned, given the inner pair and lastGood *)
GracefulReturn(lg, r) ==
    IF r.err # 0 /\ lg.has THEN Pair(lg.v, r.err) ELSE Pair(r.v, r.err)

(* Variant: Graceful remembers the value of every call *)
GracefulLastGoodAlways(lg, r) == Ref(r.v)

(* Graceful: lastGood after the call *)
GracefulLastGood(lg, r) ==
    IF r.err # 0 /\ lg.has THEN lg ELSE Ref(r.v)

(* Variant: the deferred Unlock is missing *)
UnlockNever(m) == m

(* sync.Mutex: Unlock frees the mutex *)
Unlock(m) == 0

(* Variant: a Lock that never waits *)
CanLockAlways(m) == TRUE

(* sync.Mutex: Lock proceeds only when the mutex is free *)
CanLock(m) == m = 0

----------------------------------------------------------------------------
(* Where a call goes next *)

Entry == IF pipe.cache.on THEN "check" ELSE "invoke"
AfterInner == IF pipe.cache.on THEN "storeV" ELSE "ret"
AfterBase == IF pipe.graceful THEN "graceful" ELSE AfterInner

Active(p) == pc[p] # "idle"
Inside(p) == pc[p] \notin {"idle", "lock"}
InFlight == Cardinality({p \in Callers : pc[p] \in {"invoke", "resolving"}})

----------------------------------------------------------------------------
InitOf(P) ==
    /\ pipe \in P
    /\ base \in Bases
    /\ now = 0
    /\ mu = 0
    /\ pc = [p \in Callers |-> "idle"]
    /\ loc = [p \in Callers |-> NoPair]
    /\ value = Nil
    /\ err = 0
    /\ nextResolve = 0
    /\ boIdx \in (IF pipe.cache.Backoff THEN 0..Len(Delays) ELSE {0})
    /\ lastGood = Nil
    /\ count = 0
    /\ inv = [p \in Callers |-> 0]
    /\ lastBase = NoOutcome
    /\ lastSucc = 0
    /\ lastInner = NoPair
    /\ resolvedAt = 0
    /\ failStreak = 0
    /\ overlap = FALSE
    /\ racing = FALSE

Init == InitOf(Pipelines)

(* The clock advances *)
Tick ==
    /\ now < MaxNow
    /\ now' = now + 1
    /\ UNCHANGED <<racing, pipe, base, mu, pc, loc, value, err, nextResolve, boIdx, lastGood,
                   count, inv, lastBase, lastSucc, lastInner, resolvedAt,
                   failStreak, overlap>>

(* A goroutine calls the pipeline *)
Call(p) ==
    /\ pc[p] = "idle"
    /\ pc' = [pc EXCEPT ![p] = IF pipe.safe THEN "lock" ELSE Entry]
    /\ loc' = [loc EXCEPT ![p] = NoPair]
    /\ inv' = [inv EXCEPT ![p] = 0]
    /\ overlap' = (overlap \/ (~pipe.safe /\ \E q \in Callers \ {p} : Active(q)))
    /\ UNCHANGED <<racing, pipe, base, now, mu, value, err, nextResolve, boIdx, lastGood,
                   count, lastBase, lastSucc, lastInner, resolvedAt, failStreak>>

(* Safe: mu.Lock() *)
Lock(p) ==
    /\ pc[p] = "lock"
    /\ CanLock(mu)
    /\ mu' = p
    /\ pc' = [pc EXCEPT ![p] = Entry]
    /\ UNCHANGED <<racing, pipe, base, now, loc, value, err, nextResolve, boIdx, lastGood,
                   count, inv, lastBase, lastSucc, lastInner, resolvedAt,
                   failStreak, overlap>>

(* cache.Resolve: the stored pair is returned *)
Hit(p) ==
    /\ pc[p] = "check"
    /\ CacheHit(value, now, nextResolve)
    /\ loc' = [loc EXCEPT ![p] = CachedPair(value, err)]
    /\ boIdx' = BackoffAtCheck(pipe.cache, value, TRUE, boIdx)
    /\ pc' = [pc EXCEPT ![p] = "ret"]
    /\ UNCHANGED <<racing, pipe, base, now, mu, value, err, nextResolve, lastGood,
                   count, inv, lastBase, lastSucc, lastInner, resolvedAt,
                   failStreak, overlap>>

(* cache.Resolve: no stored pair, or it is expired; the backoff policy is  *)
(* reset when nothing was ever stored                                       *)
Miss(p) ==
    /\ pc[p] = "check"
    /\ ~CacheHit(value, now, nextResolve)
    /\ boIdx' = BackoffAtCheck(pipe.cache, value, FALSE, boIdx)
    /\ pc' = [pc EXCEPT ![p] = "invoke"]
    /\ UNCHANGED <<racing, pipe, base, now, mu, loc, value, err, nextResolve, lastGood,
                   count, inv, lastBase, lastSucc, lastInner, resolvedAt,
                   failStreak, overlap>>

(* The base resolver is entered *)
Invoke(p) ==
    /\ pc[p] = "invoke"
    /\ count + InFlight <= MaxInvocations
    /\ pc' = [pc EXCEPT ![p] = "resolving"]
    /\ racing' = (racing \/ \E q \in Callers \ {p} : pc[q] = "resolving")
    /\ UNCHANGED <<pipe, base, now, mu, loc, value, err, nextResolve, boIdx, lastGood,
                   count, inv, lastBase, lastSucc, lastInner, resolvedAt,
                   failStreak, overlap>>

(* The base resolver returns: the counter resolver increments its counter *)
(* and returns it, with or without an error; Static returns its value     *)
Resolved(p) ==
    /\ pc[p] = "resolving"
    /\ \E fails \in BOOLEAN :
        LET n == count + 1
            r == BaseResolve(base, n, fails)
        IN  /\ count' = IF base.static THEN count ELSE n
            /\ loc' = [loc EXCEPT ![p] = r]
            /\ lastBase' = r
            /\ lastSucc' = IF r.err # 0 THEN lastSucc ELSE r.v
            /\ lastInner' = IF pipe.graceful THEN lastInner ELSE r
    /\ inv' = [inv EXCEPT ![p] = inv[p] + 1]
    /\ pc' = [pc EXCEPT ![p] = AfterBase]
    /\ UNCHANGED <<racing, pipe, base, now, mu, value, err, nextResolve, boIdx, lastGood,
                   resolvedAt, failStreak, overlap>>

(* Graceful: the rest of the closure after the inner resolver returned *)
GracefulStep(p) ==
    /\ pc[p] = "graceful"
    /\ loc' = [loc EXCEPT ![p] = GracefulReturn(lastGood, loc[p])]
    /\ lastGood' = GracefulLastGood(lastGood, loc[p])
    /\ lastInner' = GracefulReturn(lastGood, loc[p])
    /\ pc' = [pc EXCEPT ![p] = AfterInner]
    /\ UNCHANGED <<racing, pipe, base, now, mu, value, err, nextResolve, boIdx, count, inv,
                   lastBase, lastSucc, resolvedAt, failStreak, overlap>>

(* cache.Resolve: e.value = &v *)
StoreValue(p) ==
    /\ pc[p] = "storeV"
    /\ value' = Ref(loc[p].v)
    /\ pc' = [pc EXCEPT ![p] = "storeE"]
    /\ UNCHANGED <<racing, pipe, base, now, mu, loc, err, nextResolve, boIdx, lastGood,
                   count, inv, lastBase, lastSucc, lastInner, resolvedAt,
                   failStreak, overlap>>

(* cache.Resolve: e.err = err *)
StoreErr(p) ==
    /\ pc[p] = "storeE"
    /\ err' = loc[p].err
    /\ pc' = [pc EXCEPT ![p] = "next"]
    /\ UNCHANGED <<racing, pipe, base, now, mu, loc, value, nextResolve, boIdx, lastGood,
                   count, inv, lastBase, lastSucc, lastInner, resolvedAt,
                   failStreak, overlap>>

(* cache.Resolve: the backoff policy is reset or asked for the next delay, *)
(* and e.nextResolve = e.now().Add(next)                                    *)
StoreNext(p) ==
    /\ pc[p] = "next"
    /\ nextResolve' = now + NextDuration(pipe.cache, loc[p].err, boIdx)
    /\ boIdx' = BackoffAfter(pipe.cache, loc[p].err, boIdx)
    /\ resolvedAt' = now
    /\ failStreak' = IF loc[p].err = 0 THEN 0
                     ELSE Min(failStreak + 1, Len(Delays))
    /\ pc' = [pc EXCEPT ![p] = "ret"]
    /\ UNCHANGED <<racing, pipe, base, now, mu, loc, value, err, lastGood, count, inv,
                   lastBase, lastSucc, lastInner, overlap>>

(* The call returns loc[p]; Safe's deferred mu.Unlock() runs *)
Return(p) ==
    /\ pc[p] = "ret"
    /\ mu' = IF pipe.safe THEN Unlock(mu) ELSE mu
    /\ pc' = [pc EXCEPT ![p] = "idle"]
    /\ loc' = [loc EXCEPT ![p] = NoPair]
    /\ inv' = [inv EXCEPT ![p] = 0]
    /\ racing' = FALSE
    /\ UNCHANGED <<pipe, base, now, value, err, nextResolve, boIdx, lastGood, count,
                   lastBase, lastSucc, lastInner, resolvedAt, failStreak,
                   overlap>>

Next ==
    \/ Tick
    \/ \E p \in Callers : Call(p)
    \/ \E p \in Callers : Lock(p)
    \/ \E p \in Callers : Hit(p)
    \/ \E p \in Callers : Miss(p)
    \/ \E p \in Callers : Invoke(p)
    \/ \E p \in Callers : Resolved(p)
    \/ \E p \in Callers : GracefulStep(p)
    \/ \E p \in Callers : StoreValue(p)
    \/ \E p \in Callers : StoreErr(p)
    \/ \E p \in Callers : StoreNext(p)
    \/ \E p \in Callers : Return(p)

Spec == Init /\ [][Next]_vars

----------------------------------------------------------------------------
TypeOK ==
    /\ pipe \in Pipelines
    /\ base \in Bases
    /\ now \in 0..MaxNow
    /\ mu \in {0} \cup Callers
    /\ pc \in [Callers -> {"idle", "lock", "check", "invoke", "resolving",
                            "graceful", "storeV", "storeE", "next", "ret"}]
    /\ count \in 0..MaxInvocations
    /\ boIdx \in 0..Len(Delays)
    /\ nextResolve \in BackOffStop..(MaxNow + TTL)

----------------------------------------------------------------------------
(* Configurations and situations the properties speak about *)

(* Calls of the instance never overlapped outside a mutex *)
Serial == pipe.safe \/ ~overlap

IsOnce == pipe.cache.on /\ pipe.cache.Expiry = 0 /\ ~pipe.cache.Retry
IsRetry == pipe.cache.on /\ pipe.cache.Expiry = 0 /\ pipe.cache.Retry
              /\ ~pipe.cache.Backoff
IsTTL == pipe.cache.on /\ pipe.cache.Expiry > 0 /\ ~pipe.cache.Retry
IsTTLRetry == pipe.cache.on /\ pipe.cache.Expiry > 0 /\ pipe.cache.Retry

(* The goroutine leaves the expiry check of cache.Resolve in this step *)
Checks(p) == pc[p] = "check" /\ pc'[p] # "check"

(* The goroutine holds the pair the Graceful closure of its call returned *)
PostGraceful(p) ==
    /\ pipe.graceful
    /\ pc[p] \in {"storeV", "storeE", "next", "ret"}
    /\ pipe.cache.on => inv[p] > 0

(* The delay the policy owes for the stored outcome: the n-th delay of the *)
(* policy for the n-th failure in a row, 0 without a policy                *)
OwedDelay ==
    IF lastInner.err = 0 THEN pipe.cache.Expiry
    ELSE IF ~pipe.cache.Retry THEN pipe.cache.Expiry
    ELSE IF pipe.cache.Backoff THEN Delays[failStreak]
    ELSE 0

(* The last failure stored by the cache was answered with BackOffStop *)
Stopped ==
    /\ pipe.cache.on /\ pipe.cache.Retry /\ pipe.cache.Backoff
    /\ lastInner.err # 0
    /\ failStreak > 0
    /\ Delays[failStreak] = BackOffStop

----------------------------------------------------------------------------
(* C1: with ttl = 0 and no retry (Once) the wrapped resolver is invoked    *)
(* exactly once, whatever the number of calls and the clock, and every     *)
(* call returns the pair of that one invocation.                           *)
C1_OnceInvokedOnce ==
    (IsOnce /\ Serial) =>
        /\ count <= 1
        /\ \A p \in Callers : pc[p] = "ret" => loc[p] = lastInner

(* C2: with ttl = 0, retry and no backoff policy (Retry), once an          *)
(* invocation has succeeded the resolver is never invoked again.           *)
C2_RetryKeepsSuccess ==
    [][(IsRetry /\ Serial /\ lastSucc # 0) => count' = count]_vars

(* C3: with ttl = D > 0 and no retry, a call whose clock reading is before *)
(* t + D, t being the clock reading of the last invocation's bookkeeping,  *)
(* returns the stored pair (success or failure) without invoking the inner *)
(* resolver, and a call at or after t + D invokes it again.                *)
C3_TTLWindow ==
    [][\A p \in Callers :
        (IsTTL /\ Serial /\ value.has /\ Checks(p)) =>
            IF now < resolvedAt + pipe.cache.Expiry
            THEN /\ pc'[p] = "ret"
                 /\ loc'[p] = lastInner
                 /\ inv'[p] = 0
                 /\ count' = count
            ELSE pc'[p] = "invoke"]_vars

C3_Witness ==
    /\ IsTTL /\ Serial
    /\ count >= 2
    /\ \E p \in Callers :
        /\ pc[p] = "ret" /\ inv[p] = 0
        /\ loc[p].err # 0
        /\ now > resolvedAt

(* C4: with ttl = D > 0 and retry, a success at t is returned from the     *)
(* cache until t + D, and a failure at t until t plus the delay the        *)
(* backoff policy returned for it; with no policy that delay is 0, so the  *)
(* next call invokes the inner resolver again at an unchanged clock.       *)
C4_TTLRetryWindow ==
    [][\A p \in Callers :
        (IsTTLRetry /\ Serial /\ value.has /\ Checks(p)) =>
            IF now < resolvedAt + OwedDelay
            THEN pc'[p] = "ret" /\ loc'[p] = lastInner /\ count' = count
            ELSE pc'[p] = "invoke"]_vars

C4_Witness ==
    /\ IsTTLRetry /\ ~pipe.cache.Backoff /\ Serial
    /\ lastSucc # 0
    /\ value.has /\ err # 0
    /\ now = resolvedAt
    /\ \E p \in Callers : pc[p] = "invoke"

(* C5: once an inner invocation has succeeded, a call of Graceful invokes  *)
(* the inner resolver once and returns the error of that invocation with   *)
(* the value of the most recent successful invocation: the fresh value on  *)
(* success, the remembered one on failure; lastGood holds that value.      *)
C5_GracefulFallback ==
    \A p \in Callers :
        (Serial /\ PostGraceful(p) /\ lastSucc # 0) =>
            /\ inv[p] = 1
            /\ loc[p] = Pair(lastSucc, lastBase.err)
            /\ lastGood = Ref(lastSucc)

C5_Witness ==
    /\ Serial
    /\ lastSucc # 0
    /\ \E p \in Callers :
        /\ PostGraceful(p)
        /\ loc[p].err # 0
        /\ loc[p].v # lastBase.v

(* C6: while no invocation has succeeded, a failing call of Graceful       *)
(* returns the inner resolver's own pair of that call, and lastGood is     *)
(* absent: it is only ever set from a successful invocation.               *)
C6_NoFallbackBeforeSuccess ==
    (pipe.graceful /\ Serial /\ lastSucc = 0) =>
        /\ ~lastGood.has
        /\ \A p \in Callers : PostGraceful(p) => loc[p] = lastBase

(* C7: the error a call returns is the error (or nil) of the most recent   *)
(* invocation of the base resolver; without a cache layer that invocation  *)
(* is the one made during the call.                                        *)
C7_ErrorNotHidden ==
    \A p \in Callers :
        (Serial /\ pc[p] = "ret") =>
            /\ loc[p].err = lastBase.err
            /\ ~pipe.cache.on => inv[p] = 1

C7_Witness ==
    /\ Serial /\ pipe.graceful /\ pipe.cache.on
    /\ \E p \in Callers :
        /\ pc[p] = "ret" /\ inv[p] = 0
        /\ loc[p].err # 0
        /\ loc[p].v # lastBase.v

(* C8: under Safe at most one goroutine is past Lock at any moment, and it *)
(* is the one holding the mutex.                                           *)
C8_MutualExclusion ==
    pipe.safe =>
        /\ Cardinality({p \in Callers : Inside(p)}) <= 1
        /\ \A p \in Callers : Inside(p) => mu = p

C8_Witness ==
    /\ pipe.safe
    /\ \E p, q \in Callers : pc[p] = "resolving" /\ pc[q] = "lock"

(* C9: for a pipeline built by New with the mutex and a cache layer, while *)
(* the first invocation succeeded and the clock is inside its window (any  *)
(* clock for ttl = 0), the resolver is invoked once and every caller       *)
(* returns that result.                                                    *)
C9_SingleFlight ==
    (/\ pipe \in {New(o) : o \in Options}
     /\ pipe.safe /\ pipe.cache.on
     /\ lastSucc = 1
     /\ pipe.cache.Expiry > 0 => now < pipe.cache.Expiry) =>
        /\ count <= 1
        /\ \A p \in Callers : pc[p] = "ret" => loc[p] = Pair(1, 0)

(* C10: once NextBackOff has returned BackOffStop for a failure, the inner *)
(* resolver is never invoked again.                                        *)
C10_StopEndsRetries ==
    [][(Stopped /\ Serial) => count' = count]_vars

----------------------------------------------------------------------------
(* The option structs New can have been called with to build a pipeline    *)
(* with this Graceful and this Safe setting                                *)
OptionsFor(g, sf) ==
    [once : BOOLEAN, retry : BOOLEAN, graceful : {g},
     expiry : {0, TTL}, safe : {sf}, backoff : BOOLEAN]

(* No goroutine is inside the cache's bookkeeping *)
Settled == \A p \in Callers : pc[p] \notin {"storeV", "storeE", "next"}

(* Some base invocation has completed *)
Resolved1 == lastBase # NoOutcome

(* C11: whatever once, retry and ttl are, the pipeline New builds has the  *)
(* cache the precedence ttl, retry, once gives: with ttl > 0 a cache of    *)
(* that ttl that retries iff retry is set, with ttl = 0 and retry the      *)
(* cache of Retry, with once alone the cache of Once, in each case whether *)
(* or not the lower options are set; with none of the three there is no    *)
(* cache check and every call invokes the base resolver.                   *)
C11_OptionPrecedence ==
    \A o \in OptionsFor(pipe.graceful, pipe.safe) :
        pipe = New(o) =>
            /\ o.expiry > 0 =>
                /\ IsTTL \/ IsTTLRetry
                /\ pipe.cache.Expiry = o.expiry
                /\ pipe.cache.Retry = o.retry
                /\ pipe = New([o EXCEPT !.once = ~o.once])
            /\ (o.expiry = 0 /\ o.retry) =>
                /\ pipe.cache = Retry(o.backoff)
                /\ pipe = New([o EXCEPT !.once = ~o.once])
            /\ (o.expiry = 0 /\ ~o.retry /\ o.once) => pipe.cache = Once
            /\ (o.expiry = 0 /\ ~o.retry /\ ~o.once) =>
                /\ ~pipe.cache.on
                /\ \A p \in Callers :
                    /\ pc[p] # "check"
                    /\ pc[p] = "ret" => inv[p] = 1

C11_Witness ==
    /\ \E o \in OptionsFor(pipe.graceful, pipe.safe) :
        o.once /\ o.retry /\ o.expiry > 0 /\ pipe = New(o)
    /\ \E p \in Callers : pc[p] = "ret" /\ inv[p] = 0

(* C12: in a pipeline built by New with ttl > 0, retry and a backoff       *)
(* policy in the retry options, after a failure at t the inner resolver is *)
(* not invoked again before t plus the delay the policy gives for it.      *)
C12_BackoffThroughNew ==
    [][\A o \in OptionsFor(pipe.graceful, pipe.safe) : \A p \in Callers :
        (/\ pipe = New(o)
         /\ o.expiry > 0 /\ o.retry /\ o.backoff
         /\ Serial /\ Settled
         /\ value.has /\ lastInner.err # 0 /\ failStreak > 0
         /\ now < resolvedAt + Delays[failStreak]
         /\ Checks(p)) => pc'[p] = "ret"]_vars

(* C13: New with ttl = D, retry and graceful: a call finds the stored pair *)
(* exactly inside the window D of a success; a failure is not stored for   *)
(* any time.  Once an invocation has succeeded, a call that invokes the    *)
(* base returns the value of the most recent success with the error of its *)
(* own invocation, and a call served from the cache returns that success.  *)
C13_GracefulTTLRetry ==
    (/\ \E o \in OptionsFor(TRUE, pipe.safe) :
            o.expiry > 0 /\ o.retry /\ pipe = New(o)
     /\ Serial) =>
        \A p \in Callers :
            /\ (pc[p] = "check" /\ value.has) =>
                (CacheHit(value, now, nextResolve)
                    <=> (err = 0 /\ now < resolvedAt + pipe.cache.Expiry))
            /\ (pc[p] = "ret" /\ lastSucc # 0) =>
                /\ loc[p].v = lastSucc
                /\ loc[p].err = lastBase.err
                /\ inv[p] = 0 => loc[p].err = 0

C13_Witness ==
    /\ \E o \in OptionsFor(TRUE, pipe.safe) :
        o.expiry > 0 /\ o.retry /\ pipe = New(o)
    /\ Serial
    /\ ~base.static
    /\ \E p \in Callers :
        /\ pc[p] = "ret" /\ inv[p] = 1
        /\ loc[p].err # 0
        /\ loc[p].v # lastBase.v
        /\ now >= pipe.cache.Expiry

(* C14: under Safe with a cache, every call returns the pair of one single *)
(* inner invocation, and whenever the mutex is free the stored value and   *)
(* error are the pair of the most recent inner invocation and the stored   *)
(* next-resolve time is the one computed for that invocation.              *)
C14_ConsistentSnapshot ==
    (pipe.safe /\ pipe.cache.on) =>
        /\ \A p \in Callers : pc[p] = "ret" => loc[p] = lastInner
        /\ (mu = 0 /\ Resolved1) =>
            /\ value = Ref(lastInner.v)
            /\ err = lastInner.err
            /\ nextResolve = resolvedAt + OwedDelay

C14_Witness ==
    /\ pipe.safe /\ pipe.cache.on
    /\ ~base.static
    /\ count >= 2
    /\ \E p, q \in Callers :
        /\ pc[p] = "ret" /\ inv[p] = 0
        /\ pc[q] = "lock"

(* The stored value and the stored error come from two different base      *)
(* invocations (the counter resolver's n-th failure is the pair (n, n))     *)
Torn ==
    /\ pipe.cache.on /\ ~pipe.graceful /\ ~base.static
    /\ Settled
    /\ value.has /\ err # 0 /\ value.v # err

(* Two goroutines are together past the expiry check, neither done storing *)
BothPastCheck ==
    \A p \in Callers :
        pc[p] \in {"invoke", "resolving", "graceful", "storeV", "storeE", "next"}

(* C15: without Safe nothing holds a caller back at the entry of the cache *)
(* (no mutex is taken, no caller waits), and the race is what its absence  *)
(* allows: two callers past the expiry check together, the base resolver   *)
(* entered by both at once, and a stored value and error from two          *)
(* different invocations occur only in a pipeline without Safe whose calls *)
(* overlapped.                                                             *)
C15_RaceWithoutMutex ==
    /\ ~pipe.safe => (mu = 0 /\ \A p \in Callers : pc[p] # "lock")
    /\ (pipe.cache.on /\ (BothPastCheck \/ racing \/ Torn)) => ~Serial

C15_Witness ==
    /\ ~pipe.safe /\ pipe.cache.on /\ pipe.cache.Expiry > 0
    /\ racing
    /\ count = 2
    /\ \A p \in Callers : pc[p] = "ret" /\ inv[p] = 1
    /\ Torn

(* C16: with a Static base every call of the pipeline returns the value    *)
(* Static was built with and no error, whatever the decorators, the clock  *)
(* and the interleaving; the base keeps no count and no call changes it.   *)
C16_StaticPair ==
    base.static =>
        /\ base \in {Static(v) : v \in StaticValues}
        /\ count = 0
        /\ lastBase \in {NoOutcome, Pair(base.v, 0)}
        /\ \A p \in Callers :
            pc[p] \in {"graceful", "storeV", "storeE", "next", "ret"}
                => loc[p] = Pair(base.v, 0)

C16_Witness ==
    /\ base = Static(5)
    /\ ~pipe.cache.on /\ ~pipe.safe
    /\ now > 0
    /\ \A p \in Callers : pc[p] = "ret" /\ loc[p] = Pair(5, 0)

(* C17: at the expiry check of serial calls, the cache counts as never     *)
(* resolved exactly when no invocation has completed: then the call        *)
(* invokes the inner resolver and resets the policy, whatever ttl, retry   *)
(* and the clock are; once an invocation has completed a value is present, *)
(* whatever it is, the policy is not reset at the check, and the stored    *)
(* pair is returned exactly when the clock is before the next-resolve time.*)
C17_PresenceOnly ==
    [][\A p \in Callers :
        (pipe.cache.on /\ Serial /\ Checks(p)) =>
            /\ value.has <=> Resolved1
            /\ ~Resolved1 =>
                /\ pc'[p] = "invoke"
                /\ boIdx' = 0
            /\ Resolved1 =>
                /\ boIdx' = boIdx
                /\ (pc'[p] = "ret") <=> (now < nextResolve)
                /\ pc'[p] = "ret" => loc'[p] = lastInner]_vars

C17_Witness ==
    /\ base = Static(0)
    /\ pipe.cache.on /\ Serial
    /\ now = 0
    /\ \E p \in Callers : pc[p] = "ret" /\ inv[p] = 0 /\ loc[p] = Pair(0, 0)

(* C18: a call that finds a stored value with the clock before the         *)
(* next-resolve time returns the stored pair, invokes nothing, and leaves  *)
(* the stored value, error, next-resolve time and the backoff policy as    *)
(* they were.                                                              *)
C18_HitChangesNothing ==
    [][\A p \in Callers :
        (pc[p] = "check" /\ value.has /\ now < nextResolve /\ pc'[p] # "check") =>
            /\ pc'[p] = "ret"
            /\ loc'[p] = Pair(value.v, err)
            /\ inv'[p] = 0
            /\ UNCHANGED <<value, err, nextResolve, boIdx, count, lastGood,
                           lastBase>>]_vars

C18_Witness ==
    /\ pipe.cache.Backoff
    /\ boIdx > 0
    /\ Resolved1
    /\ \E p \in Callers : pc[p] = "ret" /\ inv[p] = 0 /\ loc[p].err # 0

(* Nobody is between the expiry check and the end of the bookkeeping *)
Quiet == \A p \in Callers : pc[p] \in {"idle", "lock", "check", "ret"}

(* C19: on a cache with a backoff policy and serial calls, from the first  *)
(* invocation on the policy has been asked for as many delays since its    *)
(* last Reset as there were failures since the last success (or since the  *)
(* start) when the cache retries, and for none when it does not; so the    *)
(* delay in force after a failure is the policy's delay for that failure's *)
(* rank in the run of failures, the initial delay for the first.           *)
C19_BackoffProtocol ==
    (pipe.cache.on /\ pipe.cache.Backoff /\ Serial) =>
        /\ (Resolved1 \/ \E p \in Callers : pc[p] \in {"invoke", "resolving"}) =>
            boIdx = IF pipe.cache.Retry THEN failStreak ELSE 0
        /\ (Quiet /\ Resolved1 /\ pipe.cache.Retry /\ lastInner.err # 0) =>
            /\ failStreak > 0
            /\ nextResolve = resolvedAt + Delays[failStreak]
        /\ (Quiet /\ Resolved1 /\ ~(pipe.cache.Retry /\ lastInner.err # 0)) =>
            nextResolve = resolvedAt + pipe.cache.Expiry

C19_Witness ==
    /\ pipe.cache.on /\ pipe.cache.Backoff /\ pipe.cache.Retry /\ Serial
    /\ ~base.static
    /\ Quiet
    /\ count = 3 /\ lastSucc = 2
    /\ lastInner.err # 0
    /\ failStreak = 1 /\ boIdx = 1
    /\ nextResolve = resolvedAt + Delays[1]

(* The specification of the pipelines under Safe with a fair scheduler:    *)
(* a goroutine that can take a step of its call eventually takes it, and a *)
(* goroutine waiting in mu.Lock() gets the mutex if it is free again and   *)
(* again (sync.Mutex hands the mutex to a starving waiter).                *)
CallStep(p) ==
    \/ Hit(p) \/ Miss(p) \/ Invoke(p) \/ Resolved(p) \/ GracefulStep(p)
    \/ StoreValue(p) \/ StoreErr(p) \/ StoreNext(p) \/ Return(p)

Fairness == \A p \in Callers : WF_vars(CallStep(p)) /\ SF_vars(Lock(p))

(* The pipelines with Safe *)
FairInit == Init /\ pipe.safe

FairSpec == FairInit /\ [][Next]_vars /\ Fairness

(* C20: under Safe the mutex is held exactly while a call is past Lock, by *)
(* the goroutine making that call, so it is free whenever no call is in    *)
(* progress; and with a fair scheduler every caller that entered a call    *)
(* returns from it (or the modelled run has used up its invocations).      *)
C20_LockReleaseProgress ==
    /\ [](pipe.safe =>
            /\ (mu = 0) <=> (\A p \in Callers : ~Inside(p))
            /\ \A p \in Callers : Inside(p) => mu = p)
    /\ \A p \in Callers :
        (pipe.safe /\ Active(p)) ~> (pc[p] = "idle" \/ count = MaxInvocations)

C20_Witness ==
    /\ pipe.safe
    /\ mu = 0
    /\ count = 2
    /\ lastBase.err # 0
    /\ \A p \in Callers : pc[p] = "idle"

(* The specification of the retrying caches built with RetryOpts whose     *)
(* MaxTries field is set to each of TriesValues                            *)
TriesInit == InitOf(TriesPipelines)

TriesSpec == TriesInit /\ [][Next]_vars

(* C21: on a retrying cache the MaxTries of its RetryOpts decides nothing: *)
(* every step of the cache that looks at its options (the expiry check,    *)
(* the Reset at the check, the delay and the policy bookkeeping after an   *)
(* invocation) is the step the same cache with any other MaxTries takes    *)
(* in the same state, and for serial calls the check returns the stored    *)
(* pair exactly when the delay owed for the last outcome has not passed,   *)
(* however many failures came before.                                      *)
C21_MaxTriesNoEffect ==
    [][\A p \in Callers : \A n \in TriesValues :
        LET d == WithMaxTries(pipe.cache, n)
        IN  /\ Checks(p) =>
                /\ (pc'[p] = "ret") <=> CacheHit(value, now, nextResolve)
                /\ boIdx' = BackoffAtCheck(d, value, pc'[p] = "ret", boIdx)
            /\ (Checks(p) /\ Serial) =>
                /\ (pc'[p] = "ret")
                    <=> (Resolved1 /\ now < resolvedAt + OwedDelay)
                /\ pc'[p] = "ret" => loc'[p] = lastInner
            /\ (pc[p] = "next" /\ pc'[p] = "ret") =>
                /\ nextResolve' = now + NextDuration(d, loc[p].err, boIdx)
                /\ boIdx' = BackoffAfter(d, loc[p].err, boIdx)]_vars

C21_Witness ==
    /\ pipe.cache.MaxTries = 1
    /\ pipe.cache.Expiry = 0 /\ ~pipe.cache.Backoff
    /\ Serial
    /\ ~base.static
    /\ lastSucc = 0
    /\ count = 3
    /\ \E p \in Callers : pc[p] = "ret" /\ inv[p] = 1 /\ loc[p].err # 0

====
